---- MODULE Spec2Model ----
(***************************************************************************)
(* A model of the Result algebra of src/src/Result.ts.                     *)
(*                                                                         *)
(* A Result is a record with a tag and one payload field, as the           *)
(* interfaces Failure and Success declare it.  A function value of the     *)
(* program is a TLA+ function from its argument to a record                *)
(* [val, calls]: the value the call returns and the names of the           *)
(* caller-supplied functions that ran while it was evaluated.  Every       *)
(* combinator returns such a record too, so that "f is not invoked" is a   *)
(* statement about the model.                                              *)
(***************************************************************************)
EXTENDS Integers, Sequences, FiniteSets, TLC

VARIABLES
  \* a chain of combinators applied to one Result
  start,    \* the Result the chain began with
  cur,      \* the Result the chain has produced so far
  ty,       \* the static type of cur's success payload
  calls,    \* names of the supplied functions invoked so far, in order
  ops       \* names of the combinators applied so far, in order

VARIABLES
  \* a function lifted over its arguments one ap at a time, under both policies
  apArgs,   \* the arguments fa applied so far, in order
  apPrev,   \* the left side fab of the last default ap
  apAcc,    \* what the default ap returned
  vapPrev,  \* the left side fab of the last validated ap
  vapAcc    \* what getValidatedApplicative(S).ap returned

VARIABLES
  \* alternatives tried one after another with orElse, under both policies
  alts,     \* the alternatives r1..rn so far, in order
  altPrev,  \* self of the last default orElse
  altAcc,   \* what the default orElse returned
  valtPrev, \* self of the last validated orElse
  valtAcc   \* what getValidatedAlt(S).orElse returned

VARIABLES
  \* one call of an array traverse
  tEntry,   \* the function called: traverseReadonlyArray, ...
  tF,       \* the function f it was given, as a table
  tAs,      \* the array as it was given
  tPc,      \* "call", "loop" or "done"
  tI,       \* the loop index i
  tOut,     \* the array out
  tLog,     \* the indices f was invoked on, in order
  tRes      \* the Result returned

VARIABLES
  \* arrays of effects sequenced one call after another in the asynchronous stack
  aScript,  \* the arrays still to be sequenced, in order
  aRan,     \* the arrays whose call has returned, in order
  aArr,     \* the array of the call in progress
  aPc,      \* "idle" between calls, "pending" while an effect is in flight
  aI,       \* the index of the effect in flight
  aOut,     \* the payloads collected by the call in progress
  aEvents,  \* the begin and settle events of the call in progress
  aLog,     \* the side-effect log, over all calls
  aResults  \* the Results of the calls that have returned, in order

VARIABLES
  \* one call flatMapRec(f)(a0)
  rF,      \* the step function f
  rA0,     \* the argument a0
  rPc,     \* "call", "enter", "loop" or "done"
  rE,      \* the value f(a0) handed to tailRec
  rV,      \* the variable v of tailRec's loop
  rCalls,  \* the arguments f has been invoked on, in order
  rIter,   \* the iterations of tailRec's loop so far
  rRes     \* the returned Result

VARIABLES
  \* one application of a constructor or combinator
  opName,  \* the operation applied last
  opArgs,  \* its arguments
  opRes    \* what it returned, with the supplied functions it invoked

VARIABLES
  \* the Result objects made so far and the one a chain is at
  heap,  \* the objects, in the order they were made
  hCur,  \* the index of the object the chain is at
  hTy    \* the type of its payloads

VARIABLES
  \* tasks traversed with the Applicative of the asynchronous stack
  qTasks,  \* the number of effects of each task, in input order
  qPc,     \* "ready", "running" or "done"
  qPos,    \* for each task, the number of its effects that have begun
  qVal,    \* for each task, the value of its effect begun last
  qQueue,  \* the tasks whose effect in flight waits in the task queue
  qLog,    \* the effect log
  qOut     \* the results collected

chainVars == <<start, cur, ty, calls, ops>>

seqVars == <<qTasks, qPc, qPos, qVal, qQueue, qLog, qOut>>

heapVars == <<heap, hCur, hTy>>

opVars == <<opName, opArgs, opRes>>

recVars == <<rF, rA0, rPc, rE, rV, rCalls, rIter, rRes>>

asyncVars == <<aScript, aRan, aArr, aPc, aI, aOut, aEvents, aLog, aResults>>

travVars == <<tEntry, tF, tAs, tPc, tI, tOut, tLog, tRes>>

altVars == <<alts, altPrev, altAcc, valtPrev, valtAcc>>

apVars == <<apArgs, apPrev, apAcc, vapPrev, vapAcc>>

vars == <<chainVars, apVars, altVars, travVars, asyncVars, recVars, opVars, heapVars, seqVars>>

\* ------------------------------------------------------------------ bounds

\* success payloads are the numbers 0..MaxNum
MaxNum == 1
\* the longest chain of combinators applied to one start value
MaxChain == 3
\* the longest sequence of alternatives tried with orElse
MaxAlts == 4
\* the longest array traversed
MaxLen == 3
\* the most calls of sequenceReadonlyArray in one run, and its longest array
MaxRuns == 2
MaxEffects == 2
\* the most invocations of the step function followed in one flatMapRec call
MaxSteps == 3
\* the most Result objects made in one run
MaxCells == 3
\* the most tasks traversed with the Applicative, and the most effects of one
MaxTasks == 3
MaxPhases == 3
\* the number of arguments of the functions lifted with ap
MaxArgs == 3

\* ------------------------------------------------------------- value sets

Nums == 0..MaxNum
Errs == {"a", "b"}

\* ------------------------------------------------------------- ResultCore

Ret(v, c) == [val |-> v, calls |-> c]

fail(e) == [tag |-> "Failure", failure |-> e]

of(a) == [tag |-> "Success", success |-> a]

isFailure(ma) == ma.tag = "Failure"

isSuccess(ma) == ma.tag = "Success"

none == [tag |-> "None"]

some(a) == [tag |-> "Some", value |-> a]

isNone(o) == o.tag = "None"

\* the payloads a function handed to a combinator may be called with
SuccessOf(self) == IF isFailure(self) THEN {} ELSE {self.success}

FailureOf(self) == IF isFailure(self) THEN {self.failure} ELSE {}

\* identity of ./Function, restricted to the set S
identity(S) == [x \in S |-> Ret(x, <<>>)]

\* a caller-supplied function with table t: calling it records its name
Supplied(name, t) == [x \in DOMAIN t |-> Ret(t[x], <<name>>)]

\* ------------------------------------------------------------- FunctorOps

\* a mapBoth whose success branch builds a Failure too
mapBothFailsBoth(f, g, fa) ==
  IF isFailure(fa)
    THEN LET x == f[fa.failure] IN Ret(fail(x.val), x.calls)
    ELSE LET y == g[fa.success] IN Ret(fail(y.val), y.calls)

\* a mapBoth that returns a Failure as it is
mapBothSkipsF(f, g, fa) ==
  IF isFailure(fa)
    THEN Ret(fa, <<>>)
    ELSE LET y == g[fa.success] IN Ret(of(y.val), y.calls)

mapBoth(f, g, fa) ==
  IF isFailure(fa)
    THEN LET x == f[fa.failure] IN Ret(fail(x.val), x.calls)
    ELSE LET y == g[fa.success] IN Ret(of(y.val), y.calls)

\* bifunctor.map(Bifunctor): mapBoth with identity on the failure side
map(f, fa) == mapBoth(identity(FailureOf(fa)), f, fa)

\* --------------------------------------------------------------- MonadOps

\* a flatMap that turns round what f returns
flatMapSwapsOutcome(f, self) ==
  IF isFailure(self) THEN Ret(self, <<>>)
  ELSE LET x == f[self.success]
       IN  Ret(IF isFailure(x.val) THEN of(x.val.failure) ELSE fail(x.val.success),
               x.calls)

\* a flatMap that evaluates f a second time
flatMapCallsTwice(f, self) ==
  IF isFailure(self) THEN Ret(self, <<>>)
  ELSE Ret(f[self.success].val, f[self.success].calls \o f[self.success].calls)

\* a flatMap that returns self whatever it is
flatMapKeepsSelf(f, self) == Ret(self, <<>>)

flatMap(f, self) ==
  IF isFailure(self) THEN Ret(self, <<>>) ELSE f[self.success]

flatten(mma) == flatMap(identity(SuccessOf(mma)), mma)

\* flattenable.tap(Flattenable): run f on the payload, keep the payload
tap(f, self) ==
  flatMap([a \in SuccessOf(self) |->
             LET x == f[a]
                 m == map([b \in SuccessOf(x.val) |-> Ret(a, <<>>)], x.val)
             IN  Ret(m.val, x.calls \o m.calls)],
          self)

\* flattenable.zipLeft(Flattenable): tap with the constant function
zipLeft(that, self) == tap([a \in SuccessOf(self) |-> Ret(that, <<>>)], self)

\* flattenable.zipRight(Flattenable): flatMap with the constant function
zipRight(that, self) ==
  flatMap([a \in SuccessOf(self) |-> Ret(that, <<>>)], self)

\* ---------------------------------------------------------- ApplicativeOps

\* flattenable.ap(Flattenable): flatMap over fab, map over fa inside it
ap(fa, fab) == flatMap([g \in SuccessOf(fab) |-> map(g, fa)], fab)

\* the separator of the intercalated string semigroup
Sep == ", "

\* Semigroup.combine(that)(self) of pipe(string.Semigroup, intercalate(Sep)):
\* self comes first in the text
combine(that, self) == self \o Sep \o that

\* a validated ap that hands the two failures to combine the other way round
validatedApSwapped(fa, fab) ==
  IF isFailure(fab)
    THEN IF isFailure(fa)
           THEN Ret(fail(combine(fab.failure, fa.failure)), <<>>)
           ELSE Ret(fab, <<>>)
    ELSE IF isFailure(fa)
           THEN Ret(fa, <<>>)
           ELSE LET y == fab.success[fa.success] IN Ret(of(y.val), y.calls)

\* getValidatedApplicative(Semigroup).ap
validatedAp(fa, fab) ==
  IF isFailure(fab)
    THEN IF isFailure(fa)
           THEN Ret(fail(combine(fa.failure, fab.failure)), <<>>)
           ELSE Ret(fab, <<>>)
    ELSE IF isFailure(fa)
           THEN Ret(fa, <<>>)
           ELSE LET y == fab.success[fa.success] IN Ret(of(y.val), y.calls)

\* ---------------------------------------------------------- AlternativeOps

\* an orElse that keeps the first Failure when the fallback fails too
orElseFirstFailure(that, fa) ==
  IF isFailure(fa) THEN (IF isFailure(that) THEN fa ELSE that) ELSE fa

orElse(that, fa) == IF isFailure(fa) THEN that ELSE fa

\* a validated orElse that hands the two failures to combine the other way round
validatedOrElseSwapped(that, self) ==
  IF isSuccess(self) THEN self
  ELSE IF isFailure(that) THEN fail(combine(self.failure, that.failure))
  ELSE that

\* getValidatedAlt(Semigroup).orElse
validatedOrElse(that, self) ==
  IF isSuccess(self) THEN self
  ELSE IF isFailure(that) THEN fail(combine(that.failure, self.failure))
  ELSE that

\* ----------------------------------------------------------- FilterableOps

\* a compact that reports onNone for every input that holds no value,
\* a Failure included
compactOnNoneForFailure(e, self) ==
  IF isFailure(self) THEN Ret(fail(e), <<>>)
  ELSE IF isNone(self.success) THEN Ret(fail(e), <<>>)
  ELSE Ret(of(self.success.value), <<>>)

compact(e, self) ==
  IF isFailure(self) THEN Ret(self, <<>>)
  ELSE IF isNone(self.success) THEN Ret(fail(e), <<>>)
  ELSE Ret(of(self.success.value), <<>>)

\* a toOption that keeps the payload of a Failure
toOptionKeepsFailure(self) ==
  IF isFailure(self) THEN Ret(some(self.failure), <<>>)
  ELSE Ret(some(self.success), <<>>)

\* _.getSuccess
toOption(self) ==
  IF isFailure(self) THEN Ret(none, <<>>) ELSE Ret(some(self.success), <<>>)

\* a getSemigroup whose combine returns the later of two Failures
getSemigroupLastFailure(S, that, self) ==
  IF isFailure(self) THEN Ret(that, <<>>)
  ELSE IF isFailure(that) THEN Ret(self, <<>>)
  ELSE LET x == S[<<that.success, self.success>>] IN Ret(of(x.val), x.calls)

\* getSemigroup(S).combine(that)(self); S is the table of
\* S.combine(that.success)(self.success)
getSemigroup(S, that, self) ==
  IF isFailure(that) THEN Ret(self, <<>>)
  ELSE IF isFailure(self) THEN Ret(that, <<>>)
  ELSE LET x == S[<<that.success, self.success>>] IN Ret(of(x.val), x.calls)

\* a tapError that returns what onError returns
tapErrorRecovers(onError, self) ==
  IF isSuccess(self) THEN Ret(self, <<>>)
  ELSE onError[self.failure]

tapError(onError, self) ==
  IF isSuccess(self) THEN Ret(self, <<>>)
  ELSE LET out == onError[self.failure]
       IN  Ret(IF isFailure(out.val) THEN out.val ELSE self, out.calls)

\* flow(g, f) of ./Function: g, then f on what g returns
flow(g, f) ==
  [x \in DOMAIN g |->
     LET y == g[x]
         z == f[y.val]
     IN  Ret(z.val, y.calls \o z.calls)]

\* a swap that returns a Success as it is
swapFailureOnly(ma) ==
  IF isFailure(ma) THEN Ret(of(ma.failure), <<>>) ELSE Ret(ma, <<>>)

swap(ma) ==
  IF isFailure(ma) THEN Ret(of(ma.failure), <<>>) ELSE Ret(fail(ma.success), <<>>)

catchAll(onError, self) ==
  IF isFailure(self) THEN onError[self.failure] ELSE Ret(self, <<>>)

\* bifunctor.mapLeft(Bifunctor): mapBoth with identity on the success side
mapError(f, self) == mapBoth(f, identity(SuccessOf(self)), self)

\* eq.fromEquals: the Eq whose equals is the function given; applied here to
\* what that function returns
fromEquals(equals) == equals

\* a getEq that does not look at the tag of that
getEqIgnoresTag(EE, EA, that, self) ==
  LET p == IF isFailure(that) THEN that.failure ELSE that.success
  IN  fromEquals(IF isFailure(self) THEN EE[<<p, self.failure>>]
                 ELSE EA[<<p, self.success>>])

\* getEq(EE, EA).equals(that)(self); EE and EA are tables over pairs
getEq(EE, EA, that, self) ==
  fromEquals(
    IF isFailure(self)
      THEN IF isFailure(that) THEN EE[<<that.failure, self.failure>>]
           ELSE Ret(FALSE, <<>>)
      ELSE IF isSuccess(that) THEN EA[<<that.success, self.success>>]
           ELSE Ret(FALSE, <<>>))

\* a separate that puts the inner Failure's payload on the right
separateSwapped(onEmpty, self) ==
  IF isFailure(self) THEN Ret(<<self, self>>, <<>>)
  ELSE IF isFailure(self.success)
    THEN Ret(<<fail(onEmpty), of(self.success.failure)>>, <<>>)
  ELSE Ret(<<fail(onEmpty), of(self.success.success)>>, <<>>)

separate(onEmpty, self) ==
  IF isFailure(self) THEN Ret(<<self, self>>, <<>>)
  ELSE IF isFailure(self.success)
    THEN Ret(<<of(self.success.failure), fail(onEmpty)>>, <<>>)
  ELSE Ret(<<fail(onEmpty), of(self.success.success)>>, <<>>)

\* what calling a function that may throw comes to: a value returned or an
\* error thrown; the same for an operation, whose caller sees Thrown(x) when
\* the error leaves it
Returns(a) == [tag |-> "Returns", value |-> a]

Thrown(x) == [tag |-> "Thrown", error |-> x]

\* a fromThrowable without the try
fromThrowableLetsThrow(f, onThrow) ==
  IF f.tag = "Thrown" THEN Ret(f, <<"f">>)
  ELSE Ret(of(f.value), <<"f">>)

\* f is what calling the thunk comes to
fromThrowable(f, onThrow) ==
  IF f.tag = "Thrown"
    THEN LET e == onThrow[f.error] IN Ret(fail(e.val), <<"f">> \o e.calls)
    ELSE Ret(of(f.value), <<"f">>)

liftThrowable(f, onThrow, a) == fromThrowable(f[a], onThrow)

\* the applicatives F handed to traverse: Option's and Result's own
Applicatives == {"Option", "Result"}

\* F.of
Fof(F, x) == IF F = "Option" THEN some(x) ELSE of(x)

\* F.map(g), g a table
Fmap(F, g, fb) ==
  IF F = "Option"
    THEN IF isNone(fb) THEN none ELSE some(g[fb.value])
    ELSE IF isFailure(fb) THEN fb ELSE of(g[fb.success])

\* a traverse that returns the Failure itself, outside of F
traverseForgetsPure(F, f, ta) ==
  IF isFailure(ta) THEN Ret(fail(ta.failure), <<>>)
  ELSE LET x == f[ta.success]
           B == IF F = "Option"
                  THEN IF isNone(x.val) THEN {} ELSE {x.val.value}
                  ELSE SuccessOf(x.val)
       IN  Ret(Fmap(F, [b \in B |-> of(b)], x.val), x.calls)

traverse(F, f, ta) ==
  IF isFailure(ta) THEN Ret(Fof(F, fail(ta.failure)), <<>>)
  ELSE LET x == f[ta.success]
           B == IF F = "Option"
                  THEN IF isNone(x.val) THEN {} ELSE {x.val.value}
                  ELSE SuccessOf(x.val)
       IN  Ret(Fmap(F, [b \in B |-> of(b)], x.val), x.calls)

\* fromResult_.filter(FromResult, Flattenable): flatMap with the test
filter(predicate, onFalse, self) ==
  flatMap([b \in SuccessOf(self) |->
             LET t == predicate[b]
             IN  Ret(IF t.val THEN of(b) ELSE fail(onFalse), t.calls)],
          self)

\* ------------------------------------------------------ chains of combinators

ResNum == {fail(e) : e \in Errs} \cup {of(n) : n \in Nums}

Options == {none} \cup {some(n) : n \in Nums}

NumFns == [Nums -> Nums]

\* the functions a Success may hold on the function side of ap
FnVals == {Supplied("g", t) : t \in NumFns}

Kleisli == [Nums -> ResNum]

Preds == [Nums -> BOOLEAN]

Types == {"num", "result", "option", "fn"}

PayloadsOf(t) ==
  CASE t = "num" -> Nums
    [] t = "result" -> ResNum
    [] t = "option" -> Options
    [] t = "fn" -> FnVals

\* the functions map is given: from a number to a payload of type t
MapTables(t) ==
  IF t = "fn" THEN {[n \in Nums |-> g] : g \in FnVals}
  ELSE [Nums -> PayloadsOf(t)]

ChainInit ==
  /\ ty \in Types
  /\ start \in {fail(e) : e \in Errs} \cup {of(p) : p \in PayloadsOf(ty)}
  /\ cur = start
  /\ calls = <<>>
  /\ ops = <<>>

\* one combinator has returned x; the payload type is now t
Applied(op, x, t) ==
  /\ Len(ops) < MaxChain
  /\ cur' = x.val
  /\ ty' = t
  /\ calls' = calls \o x.calls
  /\ ops' = Append(ops, op)
  /\ UNCHANGED start

ChainMap ==
  /\ ty = "num"
  /\ \E t \in Types : \E f \in MapTables(t) :
       Applied("map", map(Supplied("f", f), cur), t)

ChainFlatMap ==
  /\ ty = "num"
  /\ \E f \in Kleisli : Applied("flatMap", flatMap(Supplied("f", f), cur), "num")

ChainFlatten ==
  /\ ty = "result"
  /\ Applied("flatten", flatten(cur), "num")

ChainTap ==
  /\ ty = "num"
  /\ \E f \in Kleisli : Applied("tap", tap(Supplied("f", f), cur), "num")

ChainZipLeft ==
  \E that \in ResNum : Applied("zipLeft", zipLeft(that, cur), ty)

ChainZipRight ==
  \E that \in ResNum : Applied("zipRight", zipRight(that, cur), "num")

ChainAp ==
  /\ ty = "fn"
  /\ \E fa \in ResNum : Applied("ap", ap(fa, cur), "num")

ChainFilter ==
  /\ ty = "num"
  /\ \E p \in Preds : \E onFalse \in Errs :
       Applied("filter", filter(Supplied("p", p), onFalse, cur), "num")

ChainCompact ==
  /\ ty = "option"
  /\ \E onNone \in Errs : Applied("compact", compact(onNone, cur), "num")

ChainNext ==
  \/ ChainMap
  \/ ChainFlatMap
  \/ ChainFlatten
  \/ ChainTap
  \/ ChainZipLeft
  \/ ChainZipRight
  \/ ChainAp
  \/ ChainFilter
  \/ ChainCompact

ChainIdle ==
  /\ start = none
  /\ cur = none
  /\ ty = "num"
  /\ calls = <<>>
  /\ ops = <<>>

\* ---------------------------------------------------- lifting a function with ap

\* the curried functions lifted: the sum of the arguments, the first, the last
Kinds == {"sum", "first", "last"}

Final(kind, k, acc, n) ==
  CASE kind = "sum" -> (acc + n) % (MaxNum + 1)
    [] kind = "first" -> IF k = MaxArgs THEN n ELSE acc
    [] kind = "last" -> n

RECURSIVE Curried(_, _, _)
\* the function of kind `kind` that still takes k arguments
Curried(kind, k, acc) ==
  [n \in Nums |->
     Ret(IF k = 1 THEN Final(kind, k, acc, n)
         ELSE Curried(kind, k - 1, Final(kind, k, acc, n)),
         <<"g">>)]

ApInit ==
  /\ apArgs = <<>>
  /\ apPrev \in {fail(e) : e \in Errs}
                 \cup {of(Curried(kind, MaxArgs, 0)) : kind \in Kinds}
  /\ apAcc = apPrev
  /\ vapPrev = apPrev
  /\ vapAcc = apPrev

ApIdle ==
  /\ apArgs = <<>>
  /\ apPrev = none
  /\ apAcc = none
  /\ vapPrev = none
  /\ vapAcc = none

\* the next argument is applied under both policies
ApStep ==
  /\ Len(apArgs) < MaxArgs
  /\ \E fa \in ResNum :
       /\ apArgs' = Append(apArgs, fa)
       /\ apPrev' = apAcc
       /\ apAcc' = ap(fa, apAcc).val
       /\ vapPrev' = vapAcc
       /\ vapAcc' = validatedAp(fa, vapAcc).val

\* -------------------------------------------------- alternatives with orElse

\* the failures of parseString and parseNumber
AltErrs == {"not a string", "not a number"}

AltResults == {fail(e) : e \in AltErrs} \cup {of(n) : n \in Nums}

AltInit ==
  /\ \E r1 \in AltResults :
       /\ alts = <<r1>>
       /\ altPrev = r1
       /\ altAcc = r1
       /\ valtPrev = r1
       /\ valtAcc = r1

AltIdle ==
  /\ alts = <<>>
  /\ altPrev = none
  /\ altAcc = none
  /\ valtPrev = none
  /\ valtAcc = none

\* the next alternative is tried under both policies
AltStep ==
  /\ Len(alts) < MaxAlts
  /\ \E fallback \in AltResults :
       /\ alts' = Append(alts, fallback)
       /\ altPrev' = altAcc
       /\ altAcc' = orElse(fallback, altAcc)
       /\ valtPrev' = valtAcc
       /\ valtAcc' = validatedOrElse(fallback, valtAcc)

\* ------------------------------------------------------------ array traverse

Entries == {"traverseNonEmptyReadonlyArrayWithIndex",
            "traverseReadonlyArrayWithIndex",
            "traverseNonEmptyReadonlyArray",
            "traverseReadonlyArray",
            "sequenceReadonlyArray"}

\* the entries whose f takes the index
WithIndex(entry) ==
  entry \in {"traverseNonEmptyReadonlyArrayWithIndex",
             "traverseReadonlyArrayWithIndex"}

\* the entries whose array is a NonEmptyReadonlyArray
NonEmptyOnly(entry) ==
  entry \in {"traverseNonEmptyReadonlyArrayWithIndex",
             "traverseNonEmptyReadonlyArray"}

Idx == 0..(MaxLen - 1)

\* f: (index, a) => Result: fails on the indices fi and on the elements fe
IndexedTables ==
  {[p \in Idx \X Nums |->
      IF p[1] \in fi \/ p[2] \in fe THEN fail(p) ELSE of(p)] :
     fi \in SUBSET Idx, fe \in SUBSET Nums}

\* f: (a) => Result: fails on the elements fe
PlainTables ==
  {[a \in Nums |-> IF a \in fe THEN fail(<<a>>) ELSE of(<<a>>)] :
     fe \in SUBSET Nums}

ArraysOf(S, lo) == UNION {[1..n -> S] : n \in lo..MaxLen}

\* SK of ./Function: the second argument
SK(i, a) == a

\* the function the loop of traverseNonEmptyReadonlyArrayWithIndex calls:
\* f itself, or flow(SK, f)
callF(i, a) == IF WithIndex(tEntry) THEN tF[<<i, a>>] ELSE tF[SK(i, a)]

Zip == of(<<>>)

TravInit ==
  /\ tEntry \in Entries
  /\ tF \in IF WithIndex(tEntry) THEN IndexedTables
           ELSE IF tEntry = "sequenceReadonlyArray"
             THEN {[r \in ResNum |-> r]}
           ELSE PlainTables
  /\ tAs \in ArraysOf(IF tEntry = "sequenceReadonlyArray" THEN ResNum ELSE Nums,
                      IF NonEmptyOnly(tEntry) THEN 1 ELSE 0)
  /\ tPc = "call"
  /\ tI = 0
  /\ tOut = <<>>
  /\ tLog = <<>>
  /\ tRes = none

TravIdle ==
  /\ tEntry = "none"
  /\ tF = <<>>
  /\ tAs = <<>>
  /\ tPc = "idle"
  /\ tI = 0
  /\ tOut = <<>>
  /\ tLog = <<>>
  /\ tRes = none

\* an empty array handed to the loop, which calls f on index 0
TravEmptyCallsF ==
  /\ tPc = "call"
  /\ tAs = <<>>
  /\ tLog' = <<0>>
  /\ tRes' = Zip
  /\ tPc' = "done"
  /\ UNCHANGED <<tEntry, tF, tAs, tI, tOut>>

\* traverseReadonlyArrayWithIndex on an empty array: Zip
TravEmpty ==
  /\ tPc = "call"
  /\ tAs = <<>>
  /\ tRes' = Zip
  /\ tPc' = "done"
  /\ UNCHANGED <<tEntry, tF, tAs, tI, tOut, tLog>>

\* the loop that goes on after a Failure, leaving the element out
TravIterSkipsFailure ==
  /\ tPc = "loop"
  /\ tI < Len(tAs)
  /\ LET e == callF(tI, tAs[tI + 1])
     IN  /\ tLog' = Append(tLog, tI)
         /\ tOut' = IF isFailure(e) THEN tOut ELSE Append(tOut, e.success)
         /\ tI' = tI + 1
         /\ UNCHANGED <<tRes, tPc>>
  /\ UNCHANGED <<tEntry, tF, tAs>>

\* the loop that puts each payload before the ones collected so far
TravIterPrepends ==
  /\ tPc = "loop"
  /\ tI < Len(tAs)
  /\ LET e == callF(tI, tAs[tI + 1])
     IN  /\ tLog' = Append(tLog, tI)
         /\ IF isFailure(e)
              THEN /\ tRes' = e
                   /\ tPc' = "done"
                   /\ UNCHANGED <<tOut, tI>>
              ELSE /\ tOut' = <<e.success>> \o tOut
                   /\ tI' = tI + 1
                   /\ UNCHANGED <<tRes, tPc>>
  /\ UNCHANGED <<tEntry, tF, tAs>>

\* f(0, _.head(as)), and the return if it failed
TravHead ==
  /\ tPc = "call"
  /\ tAs # <<>>
  /\ LET e == callF(0, Head(tAs))
     IN  /\ tLog' = Append(tLog, 0)
         /\ IF isFailure(e)
              THEN /\ tRes' = e
                   /\ tPc' = "done"
                   /\ UNCHANGED <<tOut, tI>>
              ELSE /\ tOut' = <<e.success>>
                   /\ tI' = 1
                   /\ tPc' = "loop"
                   /\ UNCHANGED tRes
  /\ UNCHANGED <<tEntry, tF, tAs>>

\* one turn of the for loop: f(i, as[i]), and the return if it failed
TravIter ==
  /\ tPc = "loop"
  /\ tI < Len(tAs)
  /\ LET e == callF(tI, tAs[tI + 1])
     IN  /\ tLog' = Append(tLog, tI)
         /\ IF isFailure(e)
              THEN /\ tRes' = e
                   /\ tPc' = "done"
                   /\ UNCHANGED <<tOut, tI>>
              ELSE /\ tOut' = Append(tOut, e.success)
                   /\ tI' = tI + 1
                   /\ UNCHANGED <<tRes, tPc>>
  /\ UNCHANGED <<tEntry, tF, tAs>>

\* the loop is over: of(out)
TravReturn ==
  /\ tPc = "loop"
  /\ ~(tI < Len(tAs))
  /\ tRes' = of(tOut)
  /\ tPc' = "done"
  /\ UNCHANGED <<tEntry, tF, tAs, tI, tOut, tLog>>

TravNext ==
  \/ TravEmpty
  \/ TravHead
  \/ TravIter
  \/ TravReturn

\* ------------------------------------ sequencing effects in the asynchronous stack

\* An effect is written as the Result it settles with: right(n) is of(n) and
\* left(s) is fail(s).  Running it pushes itself on the side-effect log.

\* the three calls of the test 'sequenceReadonlyArray'
TestScript ==
  << <<of(1), of(2)>>, <<of(3), fail("a")>>, <<fail("b"), of(4)>> >>

EffectArrays == UNION {[1..n -> {of(1), fail("a")}] : n \in 0..MaxEffects}

Scripts == {TestScript} \cup UNION {[1..n -> EffectArrays] : n \in 1..MaxRuns}

AsyncInit ==
  /\ aScript \in Scripts
  /\ aRan = <<>>
  /\ aArr = <<>>
  /\ aPc = "idle"
  /\ aI = 0
  /\ aOut = <<>>
  /\ aEvents = <<>>
  /\ aLog = <<>>
  /\ aResults = <<>>

AsyncIdle ==
  /\ aScript = <<>>
  /\ aRan = <<>>
  /\ aArr = <<>>
  /\ aPc = "off"
  /\ aI = 0
  /\ aOut = <<>>
  /\ aEvents = <<>>
  /\ aLog = <<>>
  /\ aResults = <<>>

\* the call on arr returns res
AsyncReturn(arr, res) ==
  /\ aResults' = Append(aResults, res)
  /\ aRan' = Append(aRan, arr)
  /\ aPc' = "idle"

\* a call that starts every effect of the array at once
AsyncCallStartsAll ==
  /\ aPc = "idle"
  /\ aScript # <<>>
  /\ aArr' = Head(aScript)
  /\ aScript' = Tail(aScript)
  /\ aOut' = <<>>
  /\ aI' = 0
  /\ IF Head(aScript) = <<>>
       THEN /\ aEvents' = <<>>
            /\ AsyncReturn(<<>>, of(<<>>))
            /\ UNCHANGED aLog
       ELSE /\ aEvents' = [k \in 1..Len(Head(aScript)) |-> <<"begin", k - 1>>]
            /\ aLog' = aLog \o Head(aScript)
            /\ aPc' = "pending"
            /\ UNCHANGED <<aResults, aRan>>

\* sequenceReadonlyArray(arr) is called and run: an empty array returns
\* Success of the empty array, otherwise the effect of element 0 begins
AsyncCall ==
  /\ aPc = "idle"
  /\ aScript # <<>>
  /\ aArr' = Head(aScript)
  /\ aScript' = Tail(aScript)
  /\ aOut' = <<>>
  /\ aI' = 0
  /\ IF Head(aScript) = <<>>
       THEN /\ aEvents' = <<>>
            /\ AsyncReturn(<<>>, of(<<>>))
            /\ UNCHANGED aLog
       ELSE /\ aEvents' = << <<"begin", 0>> >>
            /\ aLog' = Append(aLog, Head(aScript)[1])
            /\ aPc' = "pending"
            /\ UNCHANGED <<aResults, aRan>>

\* the effect in flight settles: a Failure ends the call, a Success is
\* collected and the next effect begins, or the call returns the collection
AsyncSettle ==
  /\ aPc = "pending"
  /\ LET e == aArr[aI + 1]
         settled == Append(aEvents, <<"settle", aI>>)
     IN  IF isFailure(e)
           THEN /\ aEvents' = settled
                /\ AsyncReturn(aArr, e)
                /\ UNCHANGED <<aOut, aI, aLog>>
         ELSE IF aI + 1 < Len(aArr)
           THEN /\ aOut' = Append(aOut, e.success)
                /\ aI' = aI + 1
                /\ aEvents' = Append(settled, <<"begin", aI + 1>>)
                /\ aLog' = Append(aLog, aArr[aI + 2])
                /\ UNCHANGED <<aResults, aRan, aPc>>
         ELSE /\ aOut' = Append(aOut, e.success)
              /\ aEvents' = settled
              /\ AsyncReturn(aArr, of(Append(aOut, e.success)))
              /\ UNCHANGED <<aI, aLog>>
  /\ UNCHANGED <<aScript, aArr>>

AsyncNext == AsyncCall \/ AsyncSettle

\* ------------------------------------------------------------- flatMapRec

\* the function handed to tailRec, applied to e; it invokes f on a continue
stepCallsTwice(f, e) ==
  IF isFailure(e) THEN Ret(of(fail(e.failure)), <<>>)
  ELSE IF isFailure(e.success)
    THEN Ret(fail(f[e.success.failure]), <<e.success.failure, e.success.failure>>)
  ELSE Ret(of(of(e.success.success)), <<>>)

\* a step that takes a continue for the end of the loop
stepStopsOnContinue(f, e) ==
  IF isFailure(e) THEN Ret(of(fail(e.failure)), <<>>)
  ELSE IF isFailure(e.success)
    THEN Ret(of(fail(e.success.failure)), <<>>)
  ELSE Ret(of(of(e.success.success)), <<>>)

step(f, e) ==
  IF isFailure(e) THEN Ret(of(fail(e.failure)), <<>>)
  ELSE IF isFailure(e.success)
    THEN Ret(fail(f[e.success.failure]), <<e.success.failure>>)
  ELSE Ret(of(of(e.success.success)), <<>>)

\* the values a step function can return: Failure(e), Success(Failure(a'))
\* and Success(Success(b))
StepResults ==
  {fail(e) : e \in Errs} \cup {of(fail(a)) : a \in Nums} \cup {of(of(b)) : b \in Nums}

NoValue == [tag |-> "none"]

RecInit ==
  /\ rF \in [Nums -> StepResults]
  /\ rA0 \in Nums
  /\ rPc = "call"
  /\ rE = NoValue
  /\ rV = NoValue
  /\ rCalls = <<>>
  /\ rIter = 0
  /\ rRes = NoValue

RecIdle ==
  /\ rF = <<>>
  /\ rA0 = 0
  /\ rPc = "off"
  /\ rE = NoValue
  /\ rV = NoValue
  /\ rCalls = <<>>
  /\ rIter = 0
  /\ rRes = NoValue

\* flow(f, ...): f is applied to a0
RecCall ==
  /\ rPc = "call"
  /\ rE' = rF[rA0]
  /\ rCalls' = Append(rCalls, rA0)
  /\ rPc' = "enter"
  /\ UNCHANGED <<rF, rA0, rV, rIter, rRes>>

\* tailRec: let v = f(a)
RecEnter ==
  /\ rPc = "enter"
  /\ rV' = step(rF, rE).val
  /\ rCalls' = rCalls \o step(rF, rE).calls
  /\ rPc' = "loop"
  /\ UNCHANGED <<rF, rA0, rE, rIter, rRes>>

\* tailRec: while (isFailure(v)) v = f(v.failure)
RecLoop ==
  /\ rPc = "loop"
  /\ isFailure(rV)
  /\ Len(rCalls) < MaxSteps
  /\ rV' = step(rF, rV.failure).val
  /\ rCalls' = rCalls \o step(rF, rV.failure).calls
  /\ rIter' = rIter + 1
  /\ UNCHANGED <<rF, rA0, rE, rPc, rRes>>

\* tailRec: return v.success
RecReturn ==
  /\ rPc = "loop"
  /\ isSuccess(rV)
  /\ rRes' = rV.success
  /\ rPc' = "done"
  /\ UNCHANGED <<rF, rA0, rE, rV, rCalls, rIter>>

RecNext == RecCall \/ RecEnter \/ RecLoop \/ RecReturn

\* ------------------------------------- single applications of the operations

OpsInit ==
  /\ opName = "none"
  /\ opArgs = <<>>
  /\ opRes = NoValue

OpsIdle ==
  /\ opName = "off"
  /\ opArgs = <<>>
  /\ opRes = NoValue

\* the one operation of the run, name, is applied to args and returns res
Returned(name, args, res) ==
  /\ opName = "none"
  /\ opName' = name
  /\ opArgs' = args
  /\ opRes' = res

OpZipLeft ==
  \E self \in ResNum : \E that \in ResNum :
    Returned("zipLeft", [self |-> self, that |-> that], zipLeft(that, self))

OpZipRight ==
  \E self \in ResNum : \E that \in ResNum :
    Returned("zipRight", [self |-> self, that |-> that], zipRight(that, self))

\* the effectful functions f handed to traverse(F)
EffectTables(F) == IF F = "Option" THEN [Nums -> Options] ELSE [Nums -> ResNum]

OpTraverse ==
  \E F \in Applicatives : \E f \in EffectTables(F) : \E ta \in ResNum :
    Returned("traverse", [F |-> F, f |-> f, ta |-> ta],
             traverse(F, Supplied("f", f), ta))

\* Results holding a Result, and Results holding an Option
ResRes == {fail(e) : e \in Errs} \cup {of(r) : r \in ResNum}

ResOpt == {fail(e) : e \in Errs} \cup {of(o) : o \in Options}

OpSeparate ==
  \E onEmpty \in Errs : \E self \in ResRes :
    Returned("separate", [onEmpty |-> onEmpty, self |-> self],
             separate(onEmpty, self))

OpCompact ==
  \E onNone \in Errs : \E self \in ResOpt :
    Returned("compact", [onNone |-> onNone, self |-> self],
             compact(onNone, self))

OpFilter ==
  \E p \in Preds : \E onFalse \in Errs : \E self \in ResNum :
    Returned("filter", [predicate |-> p, onFalse |-> onFalse, self |-> self],
             filter(Supplied("p", p), onFalse, self))

\* the values thrown, and what calling a thunk comes to
Throwables == {"boom", "oops"}

Outcomes == {Returns(n) : n \in Nums} \cup {Thrown(x) : x \in Throwables}

OpFromThrowable ==
  \E f \in Outcomes : \E onThrow \in [Throwables -> Errs] :
    Returned("fromThrowable", [f |-> f, onThrow |-> onThrow],
             fromThrowable(f, Supplied("onThrow", onThrow)))

OpLiftThrowable ==
  \E f \in [Nums -> Outcomes] : \E onThrow \in [Throwables -> Errs] :
    \E a \in Nums :
      Returned("liftThrowable", [f |-> f[a], onThrow |-> onThrow],
               liftThrowable(f, Supplied("onThrow", onThrow), a))

\* the Eq instances handed to getEq: equivalences on the payloads
Equivs ==
  {r \in [Nums \X Nums -> BOOLEAN] :
     /\ \A x \in Nums : r[<<x, x>>]
     /\ \A x \in Nums : \A y \in Nums : r[<<x, y>>] => r[<<y, x>>]
     /\ \A x \in Nums : \A y \in Nums : \A z \in Nums :
          r[<<x, y>>] /\ r[<<y, z>>] => r[<<x, z>>]}

\* Results whose two payloads are of one type
SameTyped == {fail(n) : n \in Nums} \cup {of(n) : n \in Nums}

OpGetEq ==
  \E EE \in Equivs : \E EA \in Equivs :
    \E that \in SameTyped : \E self \in SameTyped :
      Returned("getEq", [EE |-> EE, EA |-> EA, that |-> that, self |-> self],
               getEq(Supplied("EE", EE), Supplied("EA", EA), that, self))

OpFlatMap ==
  \E f \in Kleisli : \E self \in ResNum :
    Returned("flatMap", [f |-> f, self |-> self],
             flatMap(Supplied("f", f), self))

OpMap ==
  \E f \in NumFns : \E self \in ResNum :
    Returned("map", [f |-> f, self |-> self], map(Supplied("f", f), self))

\* map(f)(map(g)(r)) and map(flow(g, f))(r), side by side
OpMapMap ==
  \E g \in NumFns : \E f \in NumFns : \E r \in ResNum :
    LET inner == map(Supplied("g", g), r)
        outer == map(Supplied("f", f), inner.val)
        fused == map(flow(Supplied("g", g), Supplied("f", f)), r)
    IN  Returned("mapmap", [g |-> g, f |-> f, r |-> r],
                 [twice |-> Ret(outer.val, inner.calls \o outer.calls),
                  fused |-> fused])

\* swap(r) and swap(swap(r))
SwapTwice(r) ==
  Returned("swap", [r |-> r],
           [once |-> swap(r).val, twice |-> swap(swap(r).val).val])

OpSwap ==
  \/ \E r \in ResNum : SwapTwice(r)
  \/ \E r \in SameTyped : SwapTwice(r)

OpToOption ==
  \E self \in ResNum : Returned("toOption", [self |-> self], toOption(self))

OpMapBoth ==
  \E f \in [Errs -> Errs] : \E g \in NumFns : \E r \in ResNum :
    Returned("mapBoth", [f |-> f, g |-> g, r |-> r],
             [both |-> mapBoth(Supplied("f", f), Supplied("g", g), r),
              error |-> mapError(Supplied("f", f), r),
              withIdentity |-> mapBoth(Supplied("f", f), identity(SuccessOf(r)), r)])

\* the semigroups S handed to getSemigroup, x combined with y
SemigroupKinds == {"sum", "first", "last"}

Combined(kind, x, y) ==
  CASE kind = "sum" -> x + y
    [] kind = "first" -> x
    [] kind = "last" -> y

\* S.combine(that)(self) is self combined with that
SemigroupTable(kind) ==
  [q \in Nums \X Nums |-> Combined(kind, q[2], q[1])]

OpGetSemigroup ==
  \E kind \in SemigroupKinds : \E that \in ResNum : \E self \in ResNum :
    Returned("getSemigroup", [S |-> kind, that |-> that, self |-> self],
             getSemigroup(Supplied("S", SemigroupTable(kind)), that, self))

OpTapError ==
  \E onError \in [Errs -> ResNum] : \E self \in ResNum :
    Returned("tapError", [onError |-> onError, self |-> self],
             tapError(Supplied("onError", onError), self))

OpsNext ==
  \/ OpToOption
  \/ OpMapBoth
  \/ OpGetSemigroup
  \/ OpTapError
  \/ OpGetEq
  \/ OpMap
  \/ OpMapMap
  \/ OpSwap
  \/ OpFlatMap
  \/ OpZipLeft
  \/ OpZipRight
  \/ OpTraverse
  \/ OpSeparate
  \/ OpCompact
  \/ OpFilter
  \/ OpFromThrowable
  \/ OpLiftThrowable

\* ------------------------------------------------- Result objects in a chain

\* A combinator returns an object it was given or one it makes with fail or
\* of; no code of the module assigns to a field of a Result.

HeapTypes == {"num", "option", "fn", "swapped"}

\* the functions a Success holds on the function side of ap
HeapFns == {Supplied("g", [n \in Nums |-> n]), Supplied("g", [n \in Nums |-> 0])}

Swapped == {fail(n) : n \in Nums} \cup {of(e) : e \in Errs}

HeapResults(t) ==
  CASE t = "num" -> ResNum
    [] t = "option" -> ResOpt
    [] t = "fn" -> {fail(e) : e \in Errs} \cup {of(g) : g \in HeapFns}
    [] t = "swapped" -> Swapped

HeapInit ==
  /\ hTy \in HeapTypes
  /\ \E v \in HeapResults(hTy) : heap = <<v>>
  /\ hCur = 1

HeapIdle ==
  /\ hTy = "off"
  /\ heap = <<>>
  /\ hCur = 0

\* the objects objs are made, the last of them returned
Made(objs, t) ==
  /\ Len(heap) + Len(objs) <= MaxCells
  /\ heap' = heap \o objs
  /\ hCur' = Len(heap) + Len(objs)
  /\ hTy' = t

\* the objects objs are made and the object at r, made before, is returned
Given(objs, r, t) ==
  /\ Len(heap) + Len(objs) <= MaxCells
  /\ heap' = heap \o objs
  /\ hCur' = r
  /\ hTy' = t

HFail == \E e \in Errs : Made(<<fail(e)>>, "num")

HOf == \E t \in HeapTypes \ {"swapped"} : \E v \in HeapResults(t) :
         isSuccess(v) /\ Made(<<v>>, t)

HMap ==
  /\ hTy = "num"
  /\ \E t \in {"num", "option"} : \E f \in MapTables(t) :
       Made(<<map(Supplied("f", f), heap[hCur]).val>>, t)

HMapBoth ==
  /\ hTy = "num"
  /\ \E f \in [Errs -> Errs] : \E g \in NumFns :
       Made(<<mapBoth(Supplied("f", f), Supplied("g", g), heap[hCur]).val>>, "num")

HMapError ==
  /\ hTy = "num"
  /\ \E f \in [Errs -> Errs] :
       Made(<<mapError(Supplied("f", f), heap[hCur]).val>>, "num")

HFlatMap ==
  /\ hTy = "num"
  /\ \E f \in Kleisli :
       IF isFailure(heap[hCur]) THEN Given(<<>>, hCur, "num")
       ELSE Made(<<flatMap(Supplied("f", f), heap[hCur]).val>>, "num")

\* ap(fa)(fab): fa is an object of the caller's
HAp ==
  /\ hTy = "fn"
  /\ \E fa \in ResNum :
       IF isFailure(heap[hCur]) THEN Given(<<fa>>, hCur, "fn")
       ELSE Made(<<fa, ap(fa, heap[hCur]).val>>, "num")

\* orElse(that)(fa): that is an object of the caller's
HOrElse ==
  /\ hTy = "num"
  /\ \E that \in ResNum :
       IF isFailure(heap[hCur]) THEN Made(<<that>>, "num")
       ELSE Given(<<that>>, hCur, "num")

\* a swap that rewrites the object it was given
HSwapInPlace ==
  /\ hTy \in {"num", "swapped"}
  /\ heap' = [heap EXCEPT ![hCur] = swap(heap[hCur]).val]
  /\ hTy' = IF hTy = "num" THEN "swapped" ELSE "num"
  /\ UNCHANGED hCur

HSwap ==
  /\ hTy \in {"num", "swapped"}
  /\ Made(<<swap(heap[hCur]).val>>, IF hTy = "num" THEN "swapped" ELSE "num")

HCompact ==
  /\ hTy = "option"
  /\ \E onNone \in Errs :
       IF isFailure(heap[hCur]) THEN Given(<<>>, hCur, "num")
       ELSE Made(<<compact(onNone, heap[hCur]).val>>, "num")

HFilter ==
  /\ hTy = "num"
  /\ \E p \in Preds : \E onFalse \in Errs :
       IF isFailure(heap[hCur]) THEN Given(<<>>, hCur, "num")
       ELSE Made(<<filter(Supplied("p", p), onFalse, heap[hCur]).val>>, "num")

HCatchAll ==
  /\ hTy = "num"
  /\ \E onError \in [Errs -> ResNum] :
       IF isFailure(heap[hCur])
         THEN Made(<<catchAll(Supplied("onError", onError), heap[hCur]).val>>, "num")
         ELSE Given(<<>>, hCur, "num")

HeapNext ==
  \/ HFail
  \/ HOf
  \/ HMap
  \/ HMapBoth
  \/ HMapError
  \/ HFlatMap
  \/ HAp
  \/ HOrElse
  \/ HSwap
  \/ HCompact
  \/ HFilter
  \/ HCatchAll

\* --------------------------- the Applicative of the asynchronous stack

\* Task i is a chain of qTasks[i] effects, as t1 = append('start 1') then
\* append('end 1'): effect j of task i pushes <<i, j>> on the log and
\* yields the length of the log, and settles through the task queue.

SeqInit ==
  /\ qTasks \in UNION {[1..n -> 1..MaxPhases] : n \in 1..MaxTasks}
  /\ qPc = "ready"
  /\ qPos = [i \in DOMAIN qTasks |-> 0]
  /\ qVal = [i \in DOMAIN qTasks |-> 0]
  /\ qQueue = <<>>
  /\ qLog = <<>>
  /\ qOut = <<>>

SeqIdle ==
  /\ qTasks = <<>>
  /\ qPc = "off"
  /\ qPos = <<>>
  /\ qVal = <<>>
  /\ qQueue = <<>>
  /\ qLog = <<>>
  /\ qOut = <<>>

\* the next effect of each task of the sequence is, with the queue left at
\* rest, begun in turn
Begun(is, rest) ==
  /\ qLog' = qLog \o [k \in 1..Len(is) |-> <<is[k], qPos[is[k]] + 1>>]
  /\ qPos' = [i \in DOMAIN qPos |->
                IF \E k \in 1..Len(is) : is[k] = i THEN qPos[i] + 1 ELSE qPos[i]]
  /\ qVal' = [i \in DOMAIN qVal |->
                IF \E k \in 1..Len(is) : is[k] = i
                  THEN Len(qLog) + (CHOOSE k \in 1..Len(is) : is[k] = i)
                  ELSE qVal[i]]
  /\ qQueue' = rest \o is

\* a traversal that starts every task at the call
SeqCallStartsAll ==
  /\ qPc = "ready"
  /\ Begun([i \in 1..Len(qTasks) |-> i], <<>>)
  /\ qPc' = "running"
  /\ UNCHANGED <<qTasks, qOut>>

\* the traversal is called and run: the first effect of the first task
\* begins
SeqCall ==
  /\ qPc = "ready"
  /\ Begun(<<1>>, <<>>)
  /\ qPc' = "running"
  /\ UNCHANGED <<qTasks, qOut>>

\* the task queue runs its first entry: the effect in flight of task i has
\* settled; the next effect of the task begins, or the task is over, its
\* value is collected, and the next task begins or the traversal returns
SeqTick ==
  /\ qPc = "running"
  /\ qQueue # <<>>
  /\ LET i == Head(qQueue)
     IN  IF qPos[i] < qTasks[i]
           THEN /\ Begun(<<i>>, Tail(qQueue))
                /\ UNCHANGED <<qPc, qOut>>
         ELSE IF i < Len(qTasks)
           THEN /\ Begun(<<i + 1>>, Tail(qQueue))
                /\ qOut' = Append(qOut, qVal[i])
                /\ UNCHANGED qPc
         ELSE /\ qOut' = Append(qOut, qVal[i])
              /\ qQueue' = Tail(qQueue)
              /\ qPc' = "done"
              /\ UNCHANGED <<qPos, qVal, qLog>>
  /\ UNCHANGED qTasks

SeqNext == SeqCall \/ SeqTick

Init == ChainInit /\ ApIdle /\ AltIdle /\ TravIdle /\ AsyncIdle /\ RecIdle /\ OpsIdle /\ HeapIdle /\ SeqIdle

Next == ChainNext /\ UNCHANGED <<apVars, altVars, travVars, asyncVars, recVars, opVars, heapVars, seqVars>>

Spec == Init /\ [][Next]_vars

InitAp == ChainIdle /\ ApInit /\ AltIdle /\ TravIdle /\ AsyncIdle /\ RecIdle /\ OpsIdle /\ HeapIdle /\ SeqIdle

NextAp == ApStep /\ UNCHANGED <<chainVars, altVars, travVars, asyncVars, recVars, opVars, heapVars, seqVars>>

SpecAp == InitAp /\ [][NextAp]_vars

InitAlt == ChainIdle /\ ApIdle /\ AltInit /\ TravIdle /\ AsyncIdle /\ RecIdle /\ OpsIdle /\ HeapIdle /\ SeqIdle

NextAlt == AltStep /\ UNCHANGED <<chainVars, apVars, travVars, asyncVars, recVars, opVars, heapVars, seqVars>>

SpecAlt == InitAlt /\ [][NextAlt]_vars

InitTraverse == ChainIdle /\ ApIdle /\ AltIdle /\ TravInit /\ AsyncIdle /\ RecIdle /\ OpsIdle /\ HeapIdle /\ SeqIdle

NextTraverse == TravNext /\ UNCHANGED <<chainVars, apVars, altVars, asyncVars, recVars, opVars, heapVars, seqVars>>

SpecTraverse == InitTraverse /\ [][NextTraverse]_vars

InitAsync == ChainIdle /\ ApIdle /\ AltIdle /\ TravIdle /\ AsyncInit /\ RecIdle /\ OpsIdle /\ HeapIdle /\ SeqIdle

NextAsync == AsyncNext /\ UNCHANGED <<chainVars, apVars, altVars, travVars, recVars, opVars, heapVars, seqVars>>

SpecAsync == InitAsync /\ [][NextAsync]_vars

InitRec == ChainIdle /\ ApIdle /\ AltIdle /\ TravIdle /\ AsyncIdle /\ RecInit /\ OpsIdle /\ HeapIdle /\ SeqIdle

NextRec == RecNext /\ UNCHANGED <<chainVars, apVars, altVars, travVars, asyncVars, opVars, heapVars, seqVars>>

SpecRec == InitRec /\ [][NextRec]_vars

InitOps == ChainIdle /\ ApIdle /\ AltIdle /\ TravIdle /\ AsyncIdle /\ RecIdle /\ OpsInit /\ HeapIdle /\ SeqIdle

NextOps == OpsNext /\ UNCHANGED <<chainVars, apVars, altVars, travVars, asyncVars, recVars, heapVars, seqVars>>

SpecOps == InitOps /\ [][NextOps]_vars

InitHeap == ChainIdle /\ ApIdle /\ AltIdle /\ TravIdle /\ AsyncIdle /\ RecIdle /\ OpsIdle /\ HeapInit /\ SeqIdle

NextHeap == HeapNext /\ UNCHANGED <<chainVars, apVars, altVars, travVars, asyncVars, recVars, opVars, seqVars>>

SpecHeap == InitHeap /\ [][NextHeap]_vars

InitSeq == ChainIdle /\ ApIdle /\ AltIdle /\ TravIdle /\ AsyncIdle /\ RecIdle /\ OpsIdle /\ HeapIdle /\ SeqInit

NextSeq == SeqNext /\ UNCHANGED <<chainVars, apVars, altVars, travVars, asyncVars, recVars, opVars, heapVars>>

SpecSeq == InitSeq /\ [][NextSeq]_vars

\* a call that has been made runs on: tailRec is synchronous code
SpecRecFair == InitRec /\ [][NextRec]_vars /\ WF_vars(NextRec)

Last(q) == q[Len(q)]

\* C2: the default ap is fail-fast, left to right: the Failure of fab if fab
\* is one, whatever fa is; else the Failure of fa; else Success(g(a)).
ApFailFast ==
  Len(apArgs) > 0 =>
    LET fa == Last(apArgs)
    IN  apAcc = IF isFailure(apPrev) THEN apPrev
                ELSE IF isFailure(fa) THEN fa
                ELSE of(apPrev.success[fa.success].val)

\* ap was given two Failures of different payloads
ApBothFail ==
  /\ Len(apArgs) > 0
  /\ isFailure(apPrev)
  /\ isFailure(Last(apArgs))
  /\ apPrev.failure # Last(apArgs).failure
  /\ apAcc = apPrev

\* C3: the validated ap agrees with the default ap unless both sides are
\* Failures, and then returns the Failure of e1 combined with e2, e1 first.
ValidatedApCombines ==
  Len(apArgs) > 0 =>
    LET fa == Last(apArgs)
    IN  IF isFailure(vapPrev) /\ isFailure(fa)
          THEN vapAcc = fail(vapPrev.failure \o Sep \o fa.failure)
          ELSE vapAcc = ap(fa, vapPrev).val

\* the validated ap was given fail("a") and then fail("b")
ValidatedApBothFail ==
  /\ Len(apArgs) > 0
  /\ vapPrev = fail("a")
  /\ Last(apArgs) = fail("b")
  /\ vapAcc = fail("a, b")

AllFail(q) == \A i \in 1..Len(q) : isFailure(q[i])

\* the first Success of q
FirstSuccess(q) ==
  q[CHOOSE i \in 1..Len(q) :
      isSuccess(q[i]) /\ \A j \in 1..(i - 1) : isFailure(q[j])]

\* C4: orElse returns self if self is a Success and the fallback as it is
\* otherwise; over r1..rn that is the first Success if there is one, and
\* the Failure of rn if there is none.
OrElseLastFailureWins ==
  /\ Len(alts) > 1 =>
       altAcc = IF isSuccess(altPrev) THEN altPrev ELSE Last(alts)
  /\ altAcc = IF AllFail(alts) THEN Last(alts) ELSE FirstSuccess(alts)

\* every alternative failed, the first and the last with different payloads
OrElseAllFailed ==
  /\ Len(alts) = MaxAlts
  /\ AllFail(alts)
  /\ alts[1].failure # Last(alts).failure
  /\ altAcc = Last(alts)

\* C5 as stated: when self and the fallback both fail the payload is the
\* fallback's failure combined with self's, self on the right; a Success
\* self is returned, and a fallback that alone succeeds is returned.
ValidatedAltFallbackFirst ==
  Len(alts) > 1 =>
    LET fallback == Last(alts)
    IN  valtAcc = IF isSuccess(valtPrev) THEN valtPrev
                  ELSE IF isFailure(fallback)
                    THEN fail(fallback.failure \o Sep \o valtPrev.failure)
                  ELSE fallback

\* C5 amended: when self and the fallback both fail the payload is self's
\* failure combined with the fallback's, self on the left; a Success self
\* is returned, and a fallback that alone succeeds is returned.
ValidatedAltSelfFirst ==
  Len(alts) > 1 =>
    LET fallback == Last(alts)
    IN  valtAcc = IF isSuccess(valtPrev) THEN valtPrev
                  ELSE IF isFailure(fallback)
                    THEN fail(valtPrev.failure \o Sep \o fallback.failure)
                  ELSE fallback

\* the validated orElse was given two Failures of different payloads
ValidatedAltBothFail ==
  /\ Len(alts) > 1
  /\ isFailure(valtPrev)
  /\ isFailure(Last(alts))
  /\ valtPrev.failure # Last(alts).failure

RECURSIVE JoinFailures(_)
\* the failure texts of q in order, separated by Sep
JoinFailures(q) ==
  IF Len(q) = 1 THEN q[1].failure
  ELSE JoinFailures(SubSeq(q, 1, Len(q) - 1)) \o Sep \o Last(q).failure

\* C6: the validated Alt accumulates the failures in evaluation order: when
\* every alternative failed, the payload is their texts in the order tried.
ValidatedAltInOrder ==
  AllFail(alts) => valtAcc = fail(JoinFailures(alts))

\* parseString failed, then parseNumber failed
ValidatedAltDocExample ==
  /\ alts = <<fail("not a string"), fail("not a number")>>
  /\ valtAcc = fail("not a string, not a number")

\* f fails on index i of the array
FailsAt(i) == isFailure(callF(i, tAs[i + 1]))

SomeFails == \E i \in 0..(Len(tAs) - 1) : FailsAt(i)

\* the smallest index f fails on
FirstFailing ==
  CHOOSE k \in 0..(Len(tAs) - 1) :
    FailsAt(k) /\ \A m \in 0..(k - 1) : ~FailsAt(m)

\* C7: the array traverse invokes f on the indices 0, 1, ..., k in
\* ascending order and once each, k the smallest index f fails on, never on
\* an index after k, and returns exactly that Failure.
TraverseShortCircuits ==
  /\ \A j \in 1..Len(tLog) : tLog[j] = j - 1
  /\ \A j \in 1..Len(tLog) : \A m \in 0..(tLog[j] - 1) : ~FailsAt(m)
  /\ (tPc = "done" /\ SomeFails) =>
       /\ Len(tLog) = FirstFailing + 1
       /\ tRes = callF(FirstFailing, tAs[FirstFailing + 1])

\* f failed on an index that is neither the first nor the last
TraverseStoppedEarly ==
  /\ tPc = "done"
  /\ SomeFails
  /\ FirstFailing > 0
  /\ FirstFailing < Len(tAs) - 1
  /\ isFailure(tRes)

\* C8: when f succeeds on every element of a non-empty array the traverse
\* returns Success(out), out[i] the success payload of f(i, as[i]) for every
\* i, and f has been invoked once per element.
TraverseCollects ==
  (tPc = "done" /\ tAs # <<>> /\ ~SomeFails) =>
    /\ isSuccess(tRes)
    /\ Len(tRes.success) = Len(tAs)
    /\ \A i \in 0..(Len(tAs) - 1) :
         tRes.success[i + 1] = callF(i, tAs[i + 1]).success
    /\ tLog = [j \in 1..Len(tAs) |-> j - 1]

\* f succeeded on every element of an array of full length
TraverseAllSucceeded ==
  /\ tPc = "done"
  /\ Len(tAs) = MaxLen
  /\ ~SomeFails
  /\ isSuccess(tRes)
  /\ WithIndex(tEntry)

\* the position of event ev in the events of the call in progress, 0 if none
PosOf(ev) ==
  IF \E p \in 1..Len(aEvents) : aEvents[p] = ev
    THEN CHOOSE p \in 1..Len(aEvents) : aEvents[p] = ev
    ELSE 0

\* the effects of arr that run: those up to the first Failure, it included
RECURSIVE RunPrefix(_)
RunPrefix(arr) ==
  IF arr = <<>> THEN <<>>
  ELSE IF isFailure(Head(arr)) THEN <<Head(arr)>>
  ELSE <<Head(arr)>> \o RunPrefix(Tail(arr))

RECURSIVE RunPrefixes(_)
RunPrefixes(arrs) ==
  IF arrs = <<>> THEN <<>>
  ELSE RunPrefix(Head(arrs)) \o RunPrefixes(Tail(arrs))

\* the Result of sequencing arr
SequenceResult(arr) ==
  IF \E k \in 1..Len(arr) : isFailure(arr[k])
    THEN Last(RunPrefix(arr))
    ELSE of([k \in 1..Len(arr) |-> arr[k].success])

\* C9: in the asynchronous stack the effects of a sequenced array run one
\* at a time in index order: the effect of element i+1 begins only after
\* the effect of element i has settled, and not at all if that settled as
\* a Failure; the log holds what ran, and each call returns the first
\* Failure or the collected payloads.
AsyncOneAtATime ==
  /\ \A i \in 0..(Len(aArr) - 2) :
       PosOf(<<"begin", i + 1>>) > 0 =>
         /\ PosOf(<<"settle", i>>) > 0
         /\ PosOf(<<"settle", i>>) < PosOf(<<"begin", i + 1>>)
         /\ isSuccess(aArr[i + 1])
  /\ \A p \in 1..Len(aEvents) : \A q \in 1..Len(aEvents) :
       (p < q /\ aEvents[p][1] = "begin" /\ aEvents[q][1] = "begin") =>
         aEvents[p][2] < aEvents[q][2]
  /\ aPc = "idle" =>
       /\ aLog = RunPrefixes(aRan)
       /\ aResults = [k \in 1..Len(aRan) |-> SequenceResult(aRan[k])]

\* the three calls of the test have returned
AsyncTestRan ==
  /\ aPc = "idle"
  /\ aRan = TestScript
  /\ aLog = <<of(1), of(2), of(3), fail("a"), fail("b")>>
  /\ aResults = <<of(<<1, 2>>), fail("a"), fail("b")>>

\* the steps of the loop of f from a, as the arguments f is evaluated on: a
\* step that continues is followed by the step on its new argument, up to
\* n steps
RECURSIVE LoopArgs(_, _, _)
LoopArgs(f, a, n) ==
  IF n = 0 THEN <<>>
  ELSE IF isSuccess(f[a]) /\ isFailure(f[a].success)
    THEN <<a>> \o LoopArgs(f, f[a].success.failure, n - 1)
  ELSE <<a>>

\* the outcome of a step that is not a continue
Outcome(r) == IF isFailure(r) THEN fail(r.failure) ELSE of(r.success.success)

\* C10: flatMapRec(f)(a0) evaluates f once per step of the loop, on a0 and
\* then on the argument of each continue in turn, and returns the outcome of
\* the first step that is not a continue: Failure(e) for an outer
\* Failure(e), Success(b) for Success(Success(b)).
FlatMapRecLoops ==
  /\ rPc \in {"loop", "done"} =>
       /\ Len(rCalls) <= MaxSteps
       /\ rCalls = LoopArgs(rF, rA0, Len(rCalls))
  /\ rPc = "done" =>
       /\ rCalls = LoopArgs(rF, rA0, MaxSteps)
       /\ rRes = Outcome(rF[Last(rCalls)])

\* a call has returned after at least one continue
FlatMapRecContinued ==
  /\ rPc = "done"
  /\ Len(rCalls) >= 2
  /\ rCalls[1] # rCalls[2]

\* a step of f on a is a continue
Continues(f, a) == isSuccess(f[a]) /\ isFailure(f[a].success)

\* the loop of f from a0 reaches a step that is not a continue
LoopStops ==
  \E n \in 1..MaxSteps : ~Continues(rF, Last(LoopArgs(rF, rA0, n)))

\* the number of continues before the first step that is not one
ContinuesBefore == Len(LoopArgs(rF, rA0, MaxSteps)) - 1

ZipSequences ==
  opName \in {"zipLeft", "zipRight"} =>
    opRes.val =
      IF isFailure(opArgs.self) THEN opArgs.self
      ELSE IF isFailure(opArgs.that) THEN opArgs.that
      ELSE IF opName = "zipLeft" THEN of(opArgs.self.success)
      ELSE of(opArgs.that.success)

\* zipRight has been applied to two Successes of different payloads
ZipRightBothSucceed ==
  /\ opName = "zipRight"
  /\ isSuccess(opArgs.self)
  /\ isSuccess(opArgs.that)
  /\ opArgs.self # opArgs.that
  /\ opRes.val = opArgs.that

\* C13: traverse(F)(f)(self) is F.of(Failure(e)) for self = Failure(e),
\* without invoking f; for self = Success(a) it invokes f once and is f(a)
\* with its value wrapped in Success: nothing when f(a) holds no value.
TraverseWraps ==
  opName = "traverse" =>
    LET F == opArgs.F
        ta == opArgs.ta
    IN  IF isFailure(ta)
          THEN /\ opRes.calls = <<>>
               /\ opRes.val = (IF F = "Option" THEN some(ta) ELSE of(ta))
          ELSE LET fa == opArgs.f[ta.success]
               IN  /\ opRes.calls = <<"f">>
                   /\ F = "Option" /\ isNone(fa) => opRes.val = none
                   /\ F = "Option" /\ ~isNone(fa) =>
                        opRes.val = some(of(fa.value))
                   /\ F = "Result" /\ isFailure(fa) => opRes.val = fa
                   /\ F = "Result" /\ isSuccess(fa) =>
                        opRes.val = of(of(fa.success))

\* traverse over Option has been applied to a Success on which f is none
TraverseNoValue ==
  /\ opName = "traverse"
  /\ opArgs.F = "Option"
  /\ isSuccess(opArgs.ta)
  /\ isNone(opArgs.f[opArgs.ta.success])
  /\ opRes = Ret(none, <<"f">>)

\* C14: separate(onMissing)(self) is the pair (self, self) for an outer
\* Failure, (Success(b), Failure(onMissing)) for Success(Failure(b)) and
\* (Failure(onMissing), Success(c)) for Success(Success(c)); so for a
\* Success exactly one component is a Success and the other is
\* Failure(onMissing).
SeparateSplits ==
  opName = "separate" =>
    LET self == opArgs.self
        missing == fail(opArgs.onEmpty)
        l == opRes.val[1]
        r == opRes.val[2]
    IN  /\ Len(opRes.val) = 2
        /\ isFailure(self) => l = self /\ r = self
        /\ isSuccess(self) /\ isFailure(self.success) =>
             l = of(self.success.failure) /\ r = missing
        /\ isSuccess(self) /\ isSuccess(self.success) =>
             l = missing /\ r = of(self.success.success)
        /\ isSuccess(self) =>
             \/ isSuccess(l) /\ r = missing
             \/ isSuccess(r) /\ l = missing

\* separate has been applied to a Success holding a Failure
SeparateInnerFailure ==
  /\ opName = "separate"
  /\ isSuccess(opArgs.self)
  /\ isFailure(opArgs.self.success)
  /\ isSuccess(opRes.val[1])
  /\ isFailure(opRes.val[2])

\* C15: compact(onMissing) turns Success(None) into Failure(onMissing) and
\* Success(Some(v)) into Success(v), and returns a Failure(e) as it is,
\* never Failure(onMissing) in its place.
CompactUnwraps ==
  opName = "compact" =>
    LET self == opArgs.self
    IN  /\ isFailure(self) => opRes.val = self
        /\ isSuccess(self) /\ isNone(self.success) =>
             opRes.val = fail(opArgs.onNone)
        /\ isSuccess(self) /\ ~isNone(self.success) =>
             opRes.val = of(self.success.value)

\* compact has been applied to a Failure other than Failure(onMissing)
CompactKeepsFailure ==
  /\ opName = "compact"
  /\ isFailure(opArgs.self)
  /\ opArgs.self.failure # opArgs.onNone
  /\ opRes.val = opArgs.self

\* C16: filter(predicate, onFalse) returns a Success(a) as it is when
\* predicate(a) holds and Failure(onFalse) when it does not; a Failure(e)
\* passes through as it is, and the predicate is not evaluated.
FilterTests ==
  opName = "filter" =>
    LET self == opArgs.self
    IN  /\ isFailure(self) => opRes = Ret(self, <<>>)
        /\ isSuccess(self) /\ opArgs.predicate[self.success] =>
             opRes = Ret(self, <<"p">>)
        /\ isSuccess(self) /\ ~opArgs.predicate[self.success] =>
             opRes = Ret(fail(opArgs.onFalse), <<"p">>)

\* filter has been applied to a Success that fails the predicate
FilterRejects ==
  /\ opName = "filter"
  /\ isSuccess(opArgs.self)
  /\ ~opArgs.predicate[opArgs.self.success]
  /\ opRes.val = fail(opArgs.onFalse)

TagsFixed ==
  /\ [](\A r \in 1..Len(heap) : isFailure(heap[r]) # isSuccess(heap[r]))
  /\ [][\A r \in 1..Len(heap) : r <= Len(heap') /\ heap'[r] = heap[r]]_vars

\* a combinator has returned an object it was given, after objects of both
\* tags were made
ObjectGivenBack ==
  /\ Len(heap) = MaxCells
  /\ hCur < Len(heap)
  /\ \E r \in 1..Len(heap) : isFailure(heap[r])
  /\ \E r \in 1..Len(heap) : isSuccess(heap[r])

\* C19: getEq(EE, EA).equals holds between two Results exactly when they
\* have the same tag and their payloads are equal under EE, for Failures,
\* or under EA, for Successes; a Failure and a Success are never equal,
\* whatever their payloads.
GetEqByTagAndPayload ==
  opName = "getEq" =>
    LET self == opArgs.self
        that == opArgs.that
    IN  opRes.val =
          \/ /\ isFailure(self) /\ isFailure(that)
             /\ opArgs.EE[<<that.failure, self.failure>>]
          \/ /\ isSuccess(self) /\ isSuccess(that)
             /\ opArgs.EA[<<that.success, self.success>>]

\* a Failure and a Success of the same payload have been compared under
\* equalities that hold of every pair
GetEqAcrossTags ==
  /\ opName = "getEq"
  /\ isFailure(opArgs.self)
  /\ isSuccess(opArgs.that)
  /\ opArgs.self.failure = opArgs.that.success
  /\ \A q \in Nums \X Nums : opArgs.EE[q] /\ opArgs.EA[q]
  /\ opRes.val = FALSE

\* C20: monad left identity: flatMap(f)(of(a)) is f(a), as f returned it,
\* and f has been invoked once.
LeftIdentity ==
  \A a \in Nums :
    (opName = "flatMap" /\ opArgs.self = of(a)) =>
      opRes = Ret(opArgs.f[a], <<"f">>)

\* flatMap has been applied to a Success on which f returns a Failure
LeftIdentityOnFailingF ==
  /\ opName = "flatMap"
  /\ isSuccess(opArgs.self)
  /\ isFailure(opArgs.f[opArgs.self.success])
  /\ opRes.val = opArgs.f[opArgs.self.success]

\* C21: monad right identity: flatMap(of)(r) is r, for a Failure and for a
\* Success.
RightIdentity ==
  (opName = "flatMap" /\ opArgs.f = [n \in Nums |-> of(n)]) =>
    opRes.val = opArgs.self

\* flatMap(of) has been applied to a Success
RightIdentityOnSuccess ==
  /\ opName = "flatMap"
  /\ opArgs.f = [n \in Nums |-> of(n)]
  /\ isSuccess(opArgs.self)
  /\ opRes.val = opArgs.self

\* C22: functor identity: map(identity)(r) is r; and map(f) returns a
\* Failure with its tag and payload, for every f.
FunctorIdentity ==
  opName = "map" =>
    /\ opArgs.f = [n \in Nums |-> n] => opRes.val = opArgs.self
    /\ isFailure(opArgs.self) => opRes = Ret(opArgs.self, <<>>)

\* map(identity) has been applied to a Success
FunctorIdentityOnSuccess ==
  /\ opName = "map"
  /\ opArgs.f = [n \in Nums |-> n]
  /\ isSuccess(opArgs.self)
  /\ opRes.val = opArgs.self

\* C23: functor composition: map(f)(map(g)(r)) is map(flow(g, f))(r):
\* Success of f(g(a)) for r = Success(a), and r for a Failure.
FunctorComposition ==
  opName = "mapmap" =>
    /\ opRes.twice = opRes.fused
    /\ opRes.twice.val =
         IF isFailure(opArgs.r) THEN opArgs.r
         ELSE of(opArgs.f[opArgs.g[opArgs.r.success]])

\* two functions that do not commute have been mapped over a Success
FunctorComposedInOrder ==
  /\ opName = "mapmap"
  /\ isSuccess(opArgs.r)
  /\ opArgs.f[opArgs.g[opArgs.r.success]] # opArgs.g[opArgs.f[opArgs.r.success]]
  /\ opRes.fused.calls = <<"g", "f">>

\* C24: swap(Failure(e)) is Success(e), swap(Success(a)) is Failure(a), and
\* swap(swap(r)) is r.
SwapInvolution ==
  opName = "swap" =>
    /\ isFailure(opArgs.r) => opRes.once = of(opArgs.r.failure)
    /\ isSuccess(opArgs.r) => opRes.once = fail(opArgs.r.success)
    /\ opRes.twice = opArgs.r

\* a Success has been swapped, and swapped back
SwapSuccessAndBack ==
  /\ opName = "swap"
  /\ isSuccess(opArgs.r)
  /\ isFailure(opRes.once)
  /\ opRes.twice = opArgs.r

\* C25: toOption(Success(a)) is Some(a) and toOption(Failure(e)) is None,
\* whatever e.
ToOptionDropsFailure ==
  opName = "toOption" =>
    /\ isSuccess(opArgs.self) => opRes.val = some(opArgs.self.success)
    /\ isFailure(opArgs.self) => opRes.val = none

\* toOption has been applied to a Failure
ToOptionOfFailure ==
  /\ opName = "toOption"
  /\ isFailure(opArgs.self)
  /\ isNone(opRes.val)

\* C26: mapBoth(f, g) invokes one of f and g: on Failure(e) it returns
\* Failure(f(e)) and g is not invoked, on Success(a) it returns
\* Success(g(a)) and f is not invoked; mapError(f) returns what
\* mapBoth(f, identity) returns.
MapBothOneSide ==
  opName = "mapBoth" =>
    LET r == opArgs.r
    IN  /\ isFailure(r) =>
             /\ opRes.both = Ret(fail(opArgs.f[r.failure]), <<"f">>)
             /\ opRes.error = Ret(fail(opArgs.f[r.failure]), <<"f">>)
        /\ isSuccess(r) =>
             /\ opRes.both = Ret(of(opArgs.g[r.success]), <<"g">>)
             /\ opRes.error = Ret(r, <<>>)
        /\ opRes.error = opRes.withIdentity

\* mapBoth has been applied to a Failure with an f that changes its payload
MapBothOnFailure ==
  /\ opName = "mapBoth"
  /\ isFailure(opArgs.r)
  /\ opArgs.f[opArgs.r.failure] # opArgs.r.failure
  /\ opRes.both.calls = <<"f">>

\* C28: getSemigroup(S).combine, self piped into combine(that): two
\* Failures give the first, self; a Failure and a Success give the Success,
\* on either side; two Successes give Success of self's payload combined
\* with that's under S.
SemigroupLeftmost ==
  opName = "getSemigroup" =>
    LET self == opArgs.self
        that == opArgs.that
    IN  /\ isFailure(self) /\ isFailure(that) => opRes.val = self
        /\ isFailure(self) /\ isSuccess(that) => opRes.val = that
        /\ isSuccess(self) /\ isFailure(that) => opRes.val = self
        /\ isSuccess(self) /\ isSuccess(that) =>
             opRes.val = of(Combined(opArgs.S, self.success, that.success))

\* two different Failures have been combined
SemigroupTwoFailures ==
  /\ opName = "getSemigroup"
  /\ isFailure(opArgs.self)
  /\ isFailure(opArgs.that)
  /\ opArgs.self # opArgs.that
  /\ opRes.val = opArgs.self

\* C29: tapError(onError) returns a Success as it is without invoking
\* onError; on Failure(e) it invokes onError(e) once and returns onError's
\* Failure if it returns one, and Failure(e) otherwise: never a Success.
TapErrorPeeks ==
  opName = "tapError" =>
    LET self == opArgs.self
    IN  /\ isSuccess(self) => opRes = Ret(self, <<>>)
        /\ isFailure(self) =>
             /\ opRes.calls = <<"onError">>
             /\ isFailure(opRes.val)
             /\ opRes.val =
                  IF isFailure(opArgs.onError[self.failure])
                    THEN opArgs.onError[self.failure]
                    ELSE self

\* tapError has been applied to a Failure with a handler that succeeds
TapErrorHandlerSucceeds ==
  /\ opName = "tapError"
  /\ isFailure(opArgs.self)
  /\ isSuccess(opArgs.onError[opArgs.self.failure])
  /\ opRes.val = opArgs.self

\* the effects of the tasks from i on, task by task
RECURSIVE TaskByTask(_)
TaskByTask(i) ==
  IF i > Len(qTasks) THEN <<>>
  ELSE [j \in 1..qTasks[i] |-> <<i, j>>] \o TaskByTask(i + 1)

\* the number of effects of the tasks up to i
RECURSIVE EffectsUpTo(_)
EffectsUpTo(i) == IF i = 0 THEN 0 ELSE qTasks[i] + EffectsUpTo(i - 1)

\* C27: traversing tasks with the Applicative of the asynchronous stack
\* runs them one after the other: the log holds the effects task by task,
\* no effect of a task before the last effect of the task before it has
\* settled, one effect in flight at a time, and the results are collected
\* in input order.
ApplicativeSequential ==
  /\ Len(qQueue) <= 1
  /\ Len(qLog) <= Len(TaskByTask(1))
  /\ \A p \in 1..Len(qLog) : qLog[p] = TaskByTask(1)[p]
  /\ qPc = "done" =>
       /\ qLog = TaskByTask(1)
       /\ qOut = [i \in 1..Len(qTasks) |-> EffectsUpTo(i)]

\* the traversal of the test has returned: two tasks of two effects each
ApplicativeTestRan ==
  /\ qPc = "done"
  /\ qTasks = <<2, 2>>
  /\ qLog = << <<1, 1>>, <<1, 2>>, <<2, 1>>, <<2, 2>> >>
  /\ qOut = <<2, 4>>

\* what traverseNonEmptyReadonlyArrayWithIndex returns on the array, from
\* index i on with out collected
RECURSIVE NonEmptyFrom(_, _)
NonEmptyFrom(i, out) ==
  IF i >= Len(tAs) THEN of(out)
  ELSE LET e == callF(i, tAs[i + 1])
       IN  IF isFailure(e) THEN e ELSE NonEmptyFrom(i + 1, Append(out, e.success))

\* C30: on an empty array traverseReadonlyArrayWithIndex(f),
\* traverseReadonlyArray(f) and sequenceReadonlyArray return Success of
\* the empty array and f is not invoked; a non-empty array is handed to
\* traverseNonEmptyReadonlyArrayWithIndex and its result returned.
EmptyTraverse ==
  tPc = "done" =>
    IF tAs = <<>>
      THEN /\ ~NonEmptyOnly(tEntry)
           /\ tRes = of(<<>>)
           /\ tLog = <<>>
      ELSE /\ tRes = NonEmptyFrom(0, <<>>)
           /\ tLog # <<>>
           /\ tLog[1] = 0

\* sequenceReadonlyArray has returned on the empty array
EmptySequenced ==
  /\ tPc = "done"
  /\ tEntry = "sequenceReadonlyArray"
  /\ tAs = <<>>
  /\ tRes = Zip
  /\ tLog = <<>>

\* C1: a chain of map, flatMap, flatten, tap, zipLeft, zipRight, ap, filter
\* and compact that starts from a Failure ends in that same Failure, and no
\* supplied function has been invoked on the way.
FailurePropagates ==
  isFailure(start) => cur = start /\ calls = <<>>

\* a Failure has gone through a chain of full length
FailureChainDone ==
  /\ isFailure(start)
  /\ Len(ops) = MaxChain
  /\ \E i \in 1..Len(ops) : ops[i] = "compact"
  /\ \E i \in 1..Len(ops) : ops[i] = "flatMap"

====
